---- MODULE Spec2Model ----
(***************************************************************************)
(* Model of the iec62056 local measurement cache: the HTTP retrieval       *)
(* service (package service), the cache dumper (actors/dump.go), the       *)
(* measurement repository and pager actor they call, and the meter         *)
(* adapter exercised by adapters/meter/meter_test.go.                      *)
(***************************************************************************)
EXTENDS Integers, Sequences, FiniteSets, TLC

VARIABLES data, n, writer, resp, sink, dump, handle, device, tpc, waited, results

vars == <<data, n, writer, resp, sink, dump, handle, device, tpc, waited, results>>
repoVars == <<data, n, writer>>
dumpVars == <<sink, dump>>
meterVars == <<handle, device, tpc, waited, results>>

(***************************************************************************)
(* Bounds.                                                                 *)
(***************************************************************************)
MaxRepo == 3

(***************************************************************************)
(* Strings are sequences of one-character strings, so that prefix tests,   *)
(* case folding and number parsing work on characters as the code's do.    *)
(***************************************************************************)
Digits == <<"0", "1", "2", "3", "4", "5", "6", "7", "8", "9">>

IsDigit(c) == \E i \in 1..10 : Digits[i] = c

DigitVal(c) == (CHOOSE i \in 1..10 : Digits[i] = c) - 1

RECURSIVE Decimal(_)
Decimal(s) ==
    IF s = <<>> THEN 0
    ELSE 10 * Decimal(SubSeq(s, 1, Len(s) - 1)) + DigitVal(s[Len(s)])

\* strconv.Atoi: an optional sign, then one or more decimal digits.
Atoi(s) ==
    LET signed == s # <<>> /\ s[1] \in {"+", "-"}
        body   == IF signed THEN Tail(s) ELSE s
    IN  IF body = <<>> \/ \E i \in 1..Len(body) : ~IsDigit(body[i])
        THEN [ok |-> FALSE, v |-> 0]
        ELSE [ok |-> TRUE,
              v  |-> IF signed /\ s[1] = "-" THEN 0 - Decimal(body) ELSE Decimal(body)]

Lower(c) ==
    CASE c = "A" -> "a"
      [] c = "F" -> "f"
      [] c = "I" -> "i"
      [] c = "L" -> "l"
      [] c = "R" -> "r"
      [] c = "S" -> "s"
      [] c = "T" -> "t"
      [] OTHER   -> c

ToLower(s) == [i \in 1..Len(s) |-> Lower(s[i])]

HasPrefix(s, p) == Len(s) >= Len(p) /\ SubSeq(s, 1, Len(p)) = p

(***************************************************************************)
(* Error values.                                                           *)
(***************************************************************************)
NoErr == "nil"
ErrBadParameter == "parameter error"
ErrPagination == "bad pagination parameters"
ErrForm == "malformed form"
NotFound == "not found"
StorageError == "storage error"
ErrNilResult == "dumpsvc.get: unexpected nil result"

Nil == <<"nil">>

First == "first"
Last == "last"

StatusOK == 200
StatusBadRequest == 400
StatusInternalServerError == 500

(***************************************************************************)
(* Measurement Repository: an ordered sequence behind a read/write lock.   *)
(* data is the backing sequence, n the committed length; an Insert holds   *)
(* the write lock while it stores the element and commits the new length.  *)
(***************************************************************************)
Repo == SubSeq(data, 1, n)

\* The k-th Measurement the poller acquires; each reading is a distinct value.
MeasurementNames == <<"A", "B", "C", "D", "E", "F", "G", "H">>

Measurement(k) == MeasurementNames[k]

RLocked == ~writer

RepoGet(s, fault, key) ==
    IF fault THEN [msm |-> Nil, err |-> StorageError]
    ELSE IF s = <<>> THEN [msm |-> Nil, err |-> NotFound]
    ELSE IF key = First THEN [msm |-> <<s[1]>>, err |-> NoErr]
    ELSE [msm |-> <<s[Len(s)]>>, err |-> NoErr]

Min(a, b) == IF a < b THEN a ELSE b

RepoGetRange(s, fault, offset, limit) ==
    IF fault THEN [msm |-> <<>>, err |-> StorageError]
    ELSE [msm |-> SubSeq(s, Min(offset, Len(s)) + 1, Min(offset + limit, Len(s))),
          err |-> NoErr]

RepoGetAll(s, fault) ==
    IF fault THEN [msm |-> <<>>, err |-> StorageError]
    ELSE [msm |-> s, err |-> NoErr]

InsertBegin ==
    /\ ~writer
    /\ n < MaxRepo
    /\ writer' = TRUE
    /\ UNCHANGED <<data, n, resp, dumpVars, meterVars>>

InsertStore ==
    /\ writer
    /\ Len(data) = n
    /\ data' = Append(data, Measurement(n + 1))
    /\ UNCHANGED <<n, writer, resp, dumpVars, meterVars>>

InsertCommit ==
    /\ writer
    /\ Len(data) = n + 1
    /\ n' = n + 1
    /\ writer' = FALSE
    /\ UNCHANGED <<data, resp, dumpVars, meterVars>>

InsertFail ==
    /\ writer
    /\ data' = SubSeq(data, 1, n)
    /\ writer' = FALSE
    /\ UNCHANGED <<n, resp, dumpVars, meterVars>>

(***************************************************************************)
(* Pager Actor: stateless facade over the Repository.                      *)
(***************************************************************************)
PagerGet(s, fault, key) == RepoGet(s, fault, key)

PagerGetPage(s, fault, page, size) ==
    IF page > 0 /\ size = 0 THEN [msm |-> <<>>, err |-> ErrBadParameter]
    ELSE IF size = 0 THEN RepoGetAll(s, fault)
    ELSE RepoGetRange(s, fault, page * size, size)

PagerGetAll(s, fault) == RepoGetAll(s, fault)

(***************************************************************************)
(* Retrieval service.                                                      *)
(***************************************************************************)
path == <<"/", "m", "e", "a", "s", "u", "r", "e", "m", "e", "n", "t", "s">>
pathSlash == path \o <<"/">>
firstPath == pathSlash \o <<"f", "i", "r", "s", "t">>
lastPath == pathSlash \o <<"l", "a", "s", "t">>

getParamsNoPageRule(page, size) ==
    LET pv == Atoi(page)
        sv == Atoi(size)
        pe == IF Len(page) # 0
              THEN IF ~pv.ok THEN <<"page parameter error">>
                   ELSE IF pv.v < 0 THEN <<"page parameter cannog be negative">>
                   ELSE <<>>
              ELSE <<>>
        se == IF Len(size) > 0
              THEN IF ~sv.ok THEN <<"size parameter error">>
                   ELSE IF sv.v < 0 THEN <<"size parameter cannot be negative">>
                   ELSE <<>>
              ELSE <<>>
        p  == IF Len(page) # 0 /\ pv.ok /\ pv.v >= 0 THEN pv.v ELSE 0
        s  == IF Len(size) > 0 /\ sv.ok /\ sv.v >= 0 THEN sv.v ELSE 0
    IN  [page |-> p, size |-> s, err |-> pe \o se]

getParams(page, size) ==
    LET pv == Atoi(page)
        sv == Atoi(size)
        pe == IF Len(page) # 0
              THEN IF ~pv.ok THEN <<"page parameter error">>
                   ELSE IF pv.v < 0 THEN <<"page parameter cannog be negative">>
                   ELSE <<>>
              ELSE <<>>
        se == IF Len(size) > 0
              THEN IF ~sv.ok THEN <<"size parameter error">>
                   ELSE IF sv.v < 0 THEN <<"size parameter cannot be negative">>
                   ELSE <<>>
              ELSE <<>>
        p  == IF Len(page) # 0 /\ pv.ok /\ pv.v >= 0 THEN pv.v ELSE 0
        s  == IF Len(size) > 0 /\ sv.ok /\ sv.v >= 0 THEN sv.v ELSE 0
        re == IF p > 0 /\ s = 0
              THEN <<"non zero page parameter requires non zero limit">>
              ELSE <<>>
    IN  [page |-> p, size |-> s, err |-> pe \o se \o re]

NewPagination(r) == getParams(r.page, r.size)

paginate(p) == p.err = <<>> /\ p.size > 0

NoPag == [page |-> 0, size |-> 0, err |-> <<>>]

getContextAnyPath(r) ==
    LET p   == ToLower(r.path)
        pag == NewPagination(r)
    IN  IF HasPrefix(p, firstPath)
        THEN [first |-> TRUE, last |-> FALSE, err |-> NoErr, hasPag |-> FALSE, pag |-> NoPag]
        ELSE IF HasPrefix(p, lastPath)
        THEN [first |-> FALSE, last |-> TRUE, err |-> NoErr, hasPag |-> FALSE, pag |-> NoPag]
        ELSE IF r.badForm
        THEN [first |-> FALSE, last |-> FALSE, err |-> ErrForm, hasPag |-> FALSE, pag |-> NoPag]
        ELSE IF pag.err # <<>>
        THEN [first |-> FALSE, last |-> FALSE, err |-> ErrPagination, hasPag |-> FALSE,
              pag |-> NoPag]
        ELSE [first |-> FALSE, last |-> FALSE, err |-> NoErr, hasPag |-> TRUE, pag |-> pag]

getContext(r) ==
    LET p   == ToLower(r.path)
        pag == NewPagination(r)
    IN  IF HasPrefix(p, firstPath)
        THEN [first |-> TRUE, last |-> FALSE, err |-> NoErr, hasPag |-> FALSE, pag |-> NoPag]
        ELSE IF HasPrefix(p, lastPath)
        THEN [first |-> FALSE, last |-> TRUE, err |-> NoErr, hasPag |-> FALSE, pag |-> NoPag]
        ELSE IF ~(p = path \/ p = pathSlash)
        THEN [first |-> FALSE, last |-> FALSE, err |-> ErrBadParameter, hasPag |-> FALSE,
              pag |-> NoPag]
        ELSE IF r.badForm
        THEN [first |-> FALSE, last |-> FALSE, err |-> ErrForm, hasPag |-> FALSE, pag |-> NoPag]
        ELSE IF pag.err # <<>>
        THEN [first |-> FALSE, last |-> FALSE, err |-> ErrPagination, hasPag |-> FALSE,
              pag |-> NoPag]
        ELSE [first |-> FALSE, last |-> FALSE, err |-> NoErr, hasPag |-> TRUE, pag |-> pag]

\* A Pager Actor call as the service makes it.
Call(op, key, page, size) == [op |-> op, key |-> key, page |-> page, size |-> size]

getFirstOnly(s, fault, key) ==
    LET r == PagerGet(s, fault, First)
    IN  IF r.err # NoErr THEN [data |-> Nil, err |-> r.err, call |-> Call("Get", First, 0, 0)]
        ELSE IF r.msm = Nil
        THEN [data |-> Nil, err |-> ErrNilResult, call |-> Call("Get", First, 0, 0)]
        ELSE [data |-> <<"one", r.msm[1]>>, err |-> NoErr, call |-> Call("Get", First, 0, 0)]

get(s, fault, key) ==
    LET r == PagerGet(s, fault, key)
    IN  IF r.err # NoErr THEN [data |-> Nil, err |-> r.err, call |-> Call("Get", key, 0, 0)]
        ELSE IF r.msm = Nil
        THEN [data |-> Nil, err |-> ErrNilResult, call |-> Call("Get", key, 0, 0)]
        ELSE [data |-> <<"one", r.msm[1]>>, err |-> NoErr, call |-> Call("Get", key, 0, 0)]

getPageSwapped(s, fault, pag) ==
    LET r == PagerGetPage(s, fault, pag.size, pag.page)
    IN  IF r.err # NoErr
        THEN [data |-> Nil, err |-> r.err, call |-> Call("GetPage", "", pag.size, pag.page)]
        ELSE [data |-> <<"many", r.msm>>, err |-> NoErr,
              call |-> Call("GetPage", "", pag.size, pag.page)]

getPage(s, fault, pag) ==
    LET r == PagerGetPage(s, fault, pag.page, pag.size)
    IN  IF r.err # NoErr
        THEN [data |-> Nil, err |-> r.err, call |-> Call("GetPage", "", pag.page, pag.size)]
        ELSE [data |-> <<"many", r.msm>>, err |-> NoErr,
              call |-> Call("GetPage", "", pag.page, pag.size)]

getAll(s, fault) ==
    LET r == PagerGetAll(s, fault)
    IN  IF r.err # NoErr THEN [data |-> Nil, err |-> r.err, call |-> Call("GetAll", "", 0, 0)]
        ELSE [data |-> <<"many", r.msm>>, err |-> NoErr, call |-> Call("GetAll", "", 0, 0)]

\* json.Marshal of a MeasurementsResponse, as a sequence of tokens.
Marshal(d) ==
    IF d = Nil THEN <<"{", "}">>
    ELSE IF d[1] = "one" THEN <<"{", "Data", ":", d[2], "}">>
    ELSE <<"{", "Data", ":", "[">> \o d[2] \o <<"]", "}">>

\* The switch of ServeHTTP that picks the Pager Actor call.
dispatchAlwaysAll(ctx, s, fault) ==
    IF ctx.first THEN get(s, fault, First)
    ELSE IF ctx.last THEN get(s, fault, Last)
    ELSE getAll(s, fault)

dispatch(ctx, s, fault) ==
    IF ctx.first THEN get(s, fault, First)
    ELSE IF ctx.last THEN get(s, fault, Last)
    ELSE IF ctx.hasPag /\ paginate(ctx.pag) THEN getPage(s, fault, ctx.pag)
    ELSE getAll(s, fault)

NoReq == [path |-> <<>>, page |-> <<>>, size |-> <<>>, badForm |-> FALSE]

Idle == [req |-> NoReq, status |-> 0, body |-> <<>>, calls |-> <<>>, seen |-> <<>>,
         fault |-> FALSE, err |-> NoErr]

\* The HTTP server hands the next request to the handler.
Receive(r) ==
    /\ resp = Idle
    /\ resp' = [Idle EXCEPT !.req = r]
    /\ UNCHANGED <<repoVars, dumpVars, meterVars>>

\* The connection is done with; the next request may arrive.
Finish ==
    /\ resp.status # 0
    /\ resp' = Idle
    /\ UNCHANGED <<repoVars, dumpVars, meterVars>>

ServeHTTP(fault) ==
    LET r   == resp.req
        ctx == getContext(r)
    IN  /\ resp.req # NoReq
        /\ resp.status = 0
        /\ IF ctx.err # NoErr
           THEN resp' = [req |-> r, status |-> StatusBadRequest, body |-> <<"bad request">>,
                         calls |-> <<>>, seen |-> <<>>, fault |-> FALSE, err |-> NoErr]
           ELSE /\ RLocked
                /\ LET out == dispatch(ctx, data, fault)
                   IN  resp' = [req |-> r,
                                status |-> IF out.err # NoErr
                                           THEN StatusInternalServerError ELSE StatusOK,
                                body |-> IF out.err # NoErr
                                         THEN <<"internal error: ", out.err>>
                                         ELSE Marshal(out.data),
                                calls |-> <<out.call>>, seen |-> data, fault |-> fault,
                                err |-> out.err]
        /\ UNCHANGED <<repoVars, dumpVars, meterVars>>

(***************************************************************************)
(* Cache Dumper.  The sink is an io.Writer: each Write takes the whole      *)
(* entry ("ok"), nothing ("fault") or a proper prefix of it ("short"); the  *)
(* last two return an error to Fprintf, whose result Do does not read.     *)
(***************************************************************************)
WriteOutcomes == {"ok", "fault", "short"}

\* fmt's "%+v" rendering of one Measurement value.
Fmt(m) == <<"{", m, "}">>

\* What the sink holds of entry e after a Write with outcome o.
Write(e, o) ==
    CASE o = "ok"    -> e
      [] o = "short" -> SubSeq(e, 1, 1)
      [] OTHER       -> <<>>

Fresh == [state |-> "fresh", calls |-> 0, seen |-> <<>>, readErr |-> NoErr,
          writes |-> <<>>, ret |-> NoErr, before |-> <<>>]

\* The range loop of Do from index i on: one Fprintf per element, in order.
RECURSIVE dumpLoopReversed(_, _, _, _)
dumpLoopReversed(m, outcomes, i, acc) ==
    IF i > Len(m) THEN acc
    ELSE LET j == Len(m) + 1 - i
         IN  dumpLoopReversed(m, outcomes, i + 1,
                 [writes |-> Append(acc.writes, [entry |-> Fmt(m[j]), outcome |-> outcomes[i]]),
                  sink   |-> acc.sink \o Write(Fmt(m[j]), outcomes[i]),
                  ret    |-> NoErr])

RECURSIVE dumpLoopStopOnFault(_, _, _, _)
dumpLoopStopOnFault(m, outcomes, i, acc) ==
    IF i > Len(m) THEN acc
    ELSE IF outcomes[i] # "ok"
    THEN [writes |-> Append(acc.writes, [entry |-> Fmt(m[i]), outcome |-> outcomes[i]]),
          sink   |-> acc.sink \o Write(Fmt(m[i]), outcomes[i]),
          ret    |-> "write error"]
    ELSE dumpLoopStopOnFault(m, outcomes, i + 1,
             [writes |-> Append(acc.writes, [entry |-> Fmt(m[i]), outcome |-> outcomes[i]]),
              sink   |-> acc.sink \o Write(Fmt(m[i]), outcomes[i]),
              ret    |-> NoErr])

RECURSIVE dumpLoopFrom(_, _, _, _)
dumpLoopFrom(m, outcomes, i, acc) ==
    IF i > Len(m) THEN acc
    ELSE dumpLoopFrom(m, outcomes, i + 1,
             [writes |-> Append(acc.writes, [entry |-> Fmt(m[i]), outcome |-> outcomes[i]]),
              sink   |-> acc.sink \o Write(Fmt(m[i]), outcomes[i]),
              ret    |-> NoErr])

dumpLoop(m, outcomes, i, acc) == dumpLoopFrom(m, outcomes, i, acc)

\* A CacheDumper is built over the Repository and a Writer holding w0.
NewDumper(w0) ==
    /\ dump.state = "done"
    /\ dump' = Fresh
    /\ sink' = w0
    /\ UNCHANGED <<repoVars, resp, meterVars>>

DoDraining(fault, outcomes) ==
    /\ dump.state = "fresh"
    /\ RLocked
    /\ dump' = [Fresh EXCEPT !.state = "done", !.calls = 1, !.seen = data, !.before = sink]
    /\ data' = <<>>
    /\ n' = 0
    /\ UNCHANGED <<writer, sink, resp, meterVars>>

Do(fault, outcomes) ==
    /\ dump.state = "fresh"
    /\ RLocked
    /\ LET r == RepoGetAll(data, fault)
       IN  IF r.err # NoErr
           THEN /\ dump' = [Fresh EXCEPT !.state = "done", !.calls = 1, !.seen = data,
                                         !.readErr = r.err, !.ret = r.err, !.before = sink]
                /\ sink' = sink
           ELSE LET out == dumpLoop(r.msm, outcomes, 1,
                                    [writes |-> <<>>, sink |-> sink, ret |-> NoErr])
                IN  /\ dump' = [Fresh EXCEPT !.state = "done", !.calls = 1, !.seen = data,
                                             !.writes = out.writes, !.ret = out.ret,
                                             !.before = sink]
                    /\ sink' = out.sink
    /\ UNCHANGED <<repoVars, resp, meterVars>>

(***************************************************************************)
(* Meter Adapter and the harness of meter_test.go that calls it.           *)
(* handle is the serial handle the adapter keeps: "closed", "open", or     *)
(* "invalid" (open, but the device went away under it).                    *)
(***************************************************************************)
TransportError == "transport error"
ProtocolError == "protocol error"

ExchangeOutcomes == {"ok", "timeout", "garbled"}

\* An adapter that remembers a failure: once a call fails it stays failed.
MeterGetSticky(h, dev, openOK, xchg, spaced) ==
    IF h = "failed" \/ (h # "open" /\ ~(dev = "up" /\ openOK))
    THEN [handle |-> "failed", result |-> TransportError, exchanges |-> 0, opened |-> FALSE]
    ELSE IF dev # "up" \/ ~spaced \/ xchg # "ok"
    THEN [handle |-> "failed",
          result |-> IF dev = "up" /\ spaced /\ xchg = "garbled"
                     THEN ProtocolError ELSE TransportError,
          exchanges |-> 1, opened |-> h # "open"]
    ELSE [handle |-> "open", result |-> "ok", exchanges |-> 1, opened |-> h # "open"]

\* Meter.Get: open the session unless a valid handle is held, then one exchange.
MeterGet(h, dev, openOK, xchg, spaced) ==
    IF h # "open" /\ ~(dev = "up" /\ openOK)
    THEN [handle |-> "closed", result |-> TransportError, exchanges |-> 0, opened |-> FALSE]
    ELSE IF dev # "up" \/ ~spaced \/ xchg = "timeout"
    THEN [handle |-> "closed", result |-> TransportError, exchanges |-> 1,
          opened |-> h # "open"]
    ELSE IF xchg = "garbled"
    THEN [handle |-> "open", result |-> ProtocolError, exchanges |-> 1,
          opened |-> h # "open"]
    ELSE [handle |-> "open", result |-> "ok", exchanges |-> 1, opened |-> h # "open"]

\* m.Get(nil) at one of the three call sites of TestGetTwo; a failure is
\* reported with t.Errorf and the test goes on.
TestCall(openOK, xchg) ==
    /\ tpc \in {0, 2, 4}
    /\ LET spaced == results = <<>> \/ waited
           out    == MeterGet(handle, device, openOK, xchg, spaced)
       IN  /\ handle' = out.handle
           /\ results' = Append(results,
                  [result |-> out.result, exchanges |-> out.exchanges,
                   opened |-> out.opened, held |-> handle = "open",
                   transportOK |-> /\ device = "up"
                                   /\ spaced
                                   /\ xchg = "ok"
                                   /\ (handle = "open" \/ openOK)])
    /\ waited' = FALSE
    /\ tpc' = tpc + 1
    /\ UNCHANGED <<device, repoVars, resp, dumpVars>>

\* time.Sleep(st) between two calls.
TestSleep ==
    /\ tpc \in {1, 3}
    /\ waited' = TRUE
    /\ tpc' = tpc + 1
    /\ UNCHANGED <<handle, device, results, repoVars, resp, dumpVars>>

\* The device is unplugged: a held handle becomes invalid.
Disconnect ==
    /\ device = "up"
    /\ device' = "down"
    /\ handle' = IF handle = "open" THEN "invalid" ELSE handle
    /\ UNCHANGED <<tpc, waited, results, repoVars, resp, dumpVars>>

Reconnect ==
    /\ device = "down"
    /\ device' = "up"
    /\ UNCHANGED <<handle, tpc, waited, results, repoVars, resp, dumpVars>>

NextMeter ==
    \/ \E openOK \in BOOLEAN, xchg \in ExchangeOutcomes : TestCall(openOK, xchg)
    \/ TestSleep
    \/ Disconnect
    \/ Reconnect

(***************************************************************************)
(* Requests the model sends.                                               *)
(***************************************************************************)
ParamStrings == {<<>>, <<"0">>, <<"1">>, <<"2">>, <<"+", "1">>, <<"-", "1">>, <<"a">>,
                 <<"1", "a">>}

Paths == {path, pathSlash, firstPath, lastPath,
          firstPath \o <<"x">>,
          pathSlash \o <<"L", "A", "S", "T">>,
          pathSlash \o <<"x">>}

Requests == [path : Paths, page : ParamStrings, size : ParamStrings, badForm : BOOLEAN]

Init ==
    /\ data = <<>>
    /\ n = 0
    /\ writer = FALSE
    /\ resp = Idle
    /\ sink = <<>>
    /\ dump = Fresh
    /\ handle = "closed"
    /\ device = "up"
    /\ tpc = 0
    /\ waited = FALSE
    /\ results = <<>>

Next ==
    \/ InsertBegin
    \/ InsertStore
    \/ InsertCommit
    \/ InsertFail
    \/ \E r \in Requests : Receive(r)
    \/ \E fault \in BOOLEAN : ServeHTTP(fault)
    \/ Finish

Spec == Init /\ [][Next]_vars

\* The dumper beside the inserter and the service.
CoreRequests ==
    {[path |-> firstPath, page |-> <<>>, size |-> <<>>, badForm |-> FALSE],
     [path |-> lastPath, page |-> <<>>, size |-> <<>>, badForm |-> FALSE],
     [path |-> path, page |-> <<>>, size |-> <<>>, badForm |-> FALSE],
     [path |-> pathSlash, page |-> <<"1">>, size |-> <<"2">>, badForm |-> FALSE],
     [path |-> pathSlash, page |-> <<"1">>, size |-> <<"0">>, badForm |-> FALSE]}

SinkContents == {<<>>, <<"#">>}

NextDump ==
    \/ InsertBegin
    \/ InsertStore
    \/ InsertCommit
    \/ InsertFail
    \/ \E r \in CoreRequests : Receive(r)
    \/ \E fault \in BOOLEAN : ServeHTTP(fault)
    \/ Finish
    \/ \E w0 \in SinkContents : NewDumper(w0)
    \/ \E fault \in BOOLEAN, outcomes \in [1..Len(data) -> WriteOutcomes] :
          Do(fault, outcomes)

SpecDump == Init /\ [][NextDump]_vars

SpecMeter == Init /\ [][NextMeter]_vars

(***************************************************************************)
(* What the claims are stated against: the request as the client wrote it, *)
(* read by a table that is independent of the handler's parsing.           *)
(***************************************************************************)
Served == resp.status # 0

IsPrefix(a, b) == Len(a) <= Len(b) /\ \A i \in 1..Len(a) : a[i] = b[i]

\* The value a parameter string denotes; -1 when it is no non-negative integer.
ParamValue(s) ==
    CASE s = <<>>           -> 0
      [] s = <<"0">>        -> 0
      [] s = <<"1">>        -> 1
      [] s = <<"2">>        -> 2
      [] s = <<"+", "1">>   -> 1
      [] OTHER              -> 0 - 1

FirstVariants == {firstPath, firstPath \o <<"x">>}
LastVariants == {lastPath, pathSlash \o <<"L", "A", "S", "T">>}
DefaultVariants == {path, pathSlash}
Recognised == FirstVariants \cup LastVariants \cup DefaultVariants

\* The clamped slice [lo, lo + size) of history H.
SliceOf(H, lo, size) ==
    LET hi == IF lo + size < Len(H) THEN lo + size ELSE Len(H)
    IN  [i \in 1..(IF hi > lo THEN hi - lo ELSE 0) |-> H[lo + i]]

JsonOne(m) == <<"{", "Data", ":", m, "}">>
JsonMany(ms) == <<"{", "Data", ":", "[">> \o ms \o <<"]", "}">>

\* What the Pager Actor call c returns on history H, as the response body.
ExpectedBody(c, H) ==
    CASE c.op = "Get" /\ c.key = First -> JsonOne(H[1])
      [] c.op = "Get" /\ c.key = Last  -> JsonOne(H[Len(H)])
      [] c.op = "GetPage"              -> JsonMany(SliceOf(H, c.page * c.size, c.size))
      [] OTHER                         -> JsonMany(H)

C1_Case ==
    /\ Served
    /\ ParamValue(resp.req.page) > 0
    /\ resp.req.size \in {<<>>, <<"0">>}

\* C1 as stated: every request with page > 0 and size = 0 is rejected with the
\* client error and makes no Pager Actor call.
C1_Original ==
    C1_Case => resp.status = StatusBadRequest /\ resp.calls = <<>>

\* C1 amended: a request with page > 0 and size = 0 whose path is not a first or
\* last variant is rejected with the client error and makes no Pager Actor call,
\* whatever the Repository holds.
C1_RejectedOffFirstLast ==
    C1_Case /\ resp.req.path \notin (FirstVariants \cup LastVariants)
        => resp.status = StatusBadRequest /\ resp.calls = <<>> /\ resp.seen = <<>>

C1_Witness ==
    /\ C1_Case
    /\ resp.req.path = pathSlash
    /\ ~resp.req.badForm
    /\ resp.req.page = <<"1">>
    /\ resp.req.size = <<"0">>
    /\ resp.status = StatusBadRequest
    /\ n = 2

\* C2 as stated: on an empty Repository a first, last or page request never ends
\* in the internal-failure outcome.
C2_EmptyNeverInternal ==
    /\ Served
    /\ resp.calls # <<>>
    /\ resp.calls[1].op \in {"Get", "GetPage"}
    /\ resp.seen = <<>>
    /\ ~resp.fault
    => resp.status # StatusInternalServerError

\* C3: a page request (page, size) with size > 0 calls GetPage(page, size)
\* unchanged and, the read succeeding, answers with the clamped slice
\* [page*size, page*size+size) of the history, of length at most size, the empty
\* sequence when the range lies past the end.
C3_PageSlice ==
    /\ Served
    /\ resp.req.path \in DefaultVariants
    /\ ~resp.req.badForm
    /\ ParamValue(resp.req.page) >= 0
    /\ ParamValue(resp.req.size) > 0
    => LET p == ParamValue(resp.req.page)
           s == ParamValue(resp.req.size)
           e == SliceOf(resp.seen, p * s, s)
       IN  /\ resp.calls = <<Call("GetPage", "", p, s)>>
           /\ Len(e) <= s
           /\ p * s >= Len(resp.seen) => e = <<>>
           /\ ~resp.fault => resp.status = StatusOK /\ resp.body = JsonMany(e)

C3_Witness ==
    /\ Served
    /\ resp.req.page = <<"1">>
    /\ resp.req.size = <<"2">>
    /\ resp.seen = <<"A", "B", "C">>
    /\ resp.status = StatusOK
    /\ resp.body = JsonMany(<<"C">>)

\* C4: a first or last request reads a committed history (a prefix of what the
\* Repository holds, never one with an uncommitted element), answers with its
\* element at index 0 resp. length-1, and reports NotFound only when that
\* history is empty.
C4_FirstLastAtomic ==
    /\ Served
    /\ resp.calls # <<>>
    /\ resp.calls[1].op = "Get"
    /\ ~resp.fault
    => /\ Len(resp.seen) <= n
       /\ IsPrefix(resp.seen, data)
       /\ resp.seen = [i \in 1..Len(resp.seen) |-> Measurement(i)]
       /\ (resp.err = NotFound) <=> (resp.seen = <<>>)
       /\ resp.seen # <<>> =>
            /\ resp.status = StatusOK
            /\ resp.req.path \in FirstVariants => resp.body = JsonOne(Measurement(1))
            /\ resp.req.path \in LastVariants
                 => resp.body = JsonOne(Measurement(Len(resp.seen)))

C4_Witness ==
    /\ Served
    /\ resp.req.path = lastPath
    /\ resp.status = StatusOK
    /\ resp.seen = <<"A", "B">>
    /\ resp.body = JsonOne("B")
    /\ writer
    /\ Len(data) = 3

\* C6: each accepted request makes exactly one Pager Actor call: Get(First) on a
\* first path, Get(Last) on a last path, GetPage(page, size) on the default path
\* with size > 0, GetAll (the whole Repository) on the default path with size = 0;
\* a request on any other path makes none.
C6_Routing ==
    Served =>
       /\ Len(resp.calls) <= 1
       /\ resp.status # StatusBadRequest => Len(resp.calls) = 1
       /\ resp.req.path \in FirstVariants => resp.calls = <<Call("Get", First, 0, 0)>>
       /\ resp.req.path \in LastVariants => resp.calls = <<Call("Get", Last, 0, 0)>>
       /\ resp.req.path \in DefaultVariants /\ resp.status # StatusBadRequest =>
            /\ ParamValue(resp.req.page) >= 0
            /\ ParamValue(resp.req.size) >= 0
            /\ ParamValue(resp.req.size) > 0 =>
                 resp.calls = <<Call("GetPage", "", ParamValue(resp.req.page),
                                     ParamValue(resp.req.size))>>
            /\ ParamValue(resp.req.size) = 0 =>
                 /\ resp.calls = <<Call("GetAll", "", 0, 0)>>
                 /\ ~resp.fault => resp.body = JsonMany(resp.seen)
       /\ resp.req.path \notin Recognised => resp.calls = <<>>

C6_Witness ==
    /\ Served
    /\ resp.req.path = path
    /\ resp.req.page = <<>>
    /\ resp.req.size = <<>>
    /\ resp.calls = <<Call("GetAll", "", 0, 0)>>
    /\ resp.body = JsonMany(<<"A", "B", "C">>)

C7_Outcome ==
    IF resp.err # NoErr
    THEN resp.status = StatusInternalServerError
         /\ resp.body = <<"internal error: ", resp.err>>
    ELSE /\ resp.status = StatusOK
         /\ Len(resp.calls) = 1
         /\ resp.body = ExpectedBody(resp.calls[1], resp.seen)

\* C7 as stated: a page or size that is no non-negative integer, or an
\* unrecognised path, gets the client error and no Pager Actor call; a failed
\* call gets the server error; every other request gets the JSON Data.
C7_Original ==
    Served /\ ~resp.req.badForm =>
       IF \/ ParamValue(resp.req.page) < 0
          \/ ParamValue(resp.req.size) < 0
          \/ resp.req.path \notin Recognised
       THEN resp.status = StatusBadRequest /\ resp.calls = <<>>
       ELSE C7_Outcome

\* When the handler rejects, by the request alone.
C7_Rejected ==
    \/ resp.req.path \notin Recognised
    \/ /\ resp.req.path \in DefaultVariants
       /\ \/ resp.req.badForm
          \/ ParamValue(resp.req.page) < 0
          \/ ParamValue(resp.req.size) < 0
          \/ ParamValue(resp.req.page) > 0 /\ ParamValue(resp.req.size) = 0

\* C7 amended: the client error and no Pager Actor call go to a request on an
\* unrecognised path and to a default-path request whose form is malformed,
\* whose page or size is no non-negative integer, or whose page > 0 comes with
\* size = 0 (first and last paths ignore page and size); a failed call gets the
\* server error with the error's text; every other request gets the JSON Data
\* of its one call. Absent page and size count as 0.
C7_OneOutcome ==
    Served =>
       /\ resp.status \in {StatusOK, StatusBadRequest, StatusInternalServerError}
       /\ IF C7_Rejected
          THEN resp.status = StatusBadRequest /\ resp.calls = <<>>
               /\ resp.body = <<"bad request">>
          ELSE C7_Outcome
       /\ resp.req.path \in DefaultVariants /\ ~resp.req.badForm
             /\ resp.req.page = <<>> /\ resp.req.size = <<>>
          => resp.calls = <<Call("GetAll", "", 0, 0)>>
       /\ resp.req.path \in DefaultVariants /\ ~resp.req.badForm
             /\ resp.req.page = <<>> /\ ParamValue(resp.req.size) > 0
          => resp.calls = <<Call("GetPage", "", 0, ParamValue(resp.req.size))>>

C7_Witness ==
    /\ Served
    /\ resp.req.path = firstPath
    /\ resp.req.page = <<"a">>
    /\ resp.status = StatusOK
    /\ resp.body = JsonOne("A")

(***************************************************************************)
(* Cache Dumper and Repository claims, under SpecDump.                     *)
(***************************************************************************)
Dumped == dump.state = "done"

\* One "{m}" entry per Measurement of H, in H's order.
EntriesOf(H) ==
    [k \in 1..(3 * Len(H)) |->
        IF k % 3 = 1 THEN "{" ELSE IF k % 3 = 2 THEN H[(k + 1) \div 3] ELSE "}"]

\* What the sink took of the writes ws[1..k].
RECURSIVE TakenOf(_, _)
TakenOf(ws, k) ==
    IF k = 0 THEN <<>>
    ELSE TakenOf(ws, k - 1) \o
         (IF ws[k].outcome = "ok" THEN ws[k].entry
          ELSE IF ws[k].outcome = "short" THEN <<ws[k].entry[1]>>
          ELSE <<>>)

\* C5: the committed sequence only ever grows by one Measurement at its end, and
\* only in the step that commits an Insert; every other step, the service's and
\* the dumper's included, leaves it as it was.
C5_AppendOnly ==
    [][ /\ IsPrefix(Repo, Repo')
        /\ Repo' # Repo =>
              /\ writer /\ ~writer' /\ data' = data
              /\ Len(Repo') = Len(Repo) + 1
              /\ dump' = dump /\ resp' = resp /\ sink' = sink
        /\ (dump' # dump \/ resp' # resp \/ sink' # sink) => Repo' = Repo ]_vars

C5_Witness ==
    /\ Dumped
    /\ dump.seen = <<"A", "B">>
    /\ dump.ret = NoErr
    /\ Served
    /\ resp.calls = <<Call("GetAll", "", 0, 0)>>
    /\ resp.body = JsonMany(<<"A", "B">>)
    /\ Repo = <<"A", "B">>

\* C8 as stated: when the read succeeds the sink gains exactly one entry per
\* Measurement, in Repository order.
C8_Original ==
    Dumped /\ dump.ret = NoErr => sink = dump.before \o EntriesOf(dump.seen)

\* C8 amended: Do calls GetAll once and, the read succeeding, makes one write per
\* Measurement in Repository order, none skipped, repeated or reordered; the
\* sink gains what it took of each write, in that order, which is one entry per
\* Measurement exactly when every write is taken whole.
C8_OneWritePerMeasurement ==
    Dumped =>
       /\ dump.calls = 1
       /\ dump.readErr = NoErr =>
            /\ Len(dump.writes) = Len(dump.seen)
            /\ \A i \in 1..Len(dump.writes) :
                   dump.writes[i].entry = <<"{", dump.seen[i], "}">>
            /\ sink = dump.before \o TakenOf(dump.writes, Len(dump.writes))
            /\ (\A i \in 1..Len(dump.writes) : dump.writes[i].outcome = "ok")
                   => sink = dump.before \o EntriesOf(dump.seen)

C8_Witness ==
    /\ Dumped
    /\ dump.seen = <<"A", "B", "C">>
    /\ dump.before = <<"#">>
    /\ sink = <<"#", "{", "A", "}", "{", "B", "}", "{", "C", "}">>

\* C9: Do returns an error exactly when GetAll does, and then that error with
\* nothing written; a write fault leaves the return value nil, is not retried,
\* and the writes for the remaining Measurements are still made.
C9_FailsOnlyOnRead ==
    Dumped =>
       /\ dump.ret = dump.readErr
       /\ dump.readErr # NoErr => sink = dump.before /\ dump.writes = <<>>
       /\ dump.readErr = NoErr =>
            /\ Len(dump.writes) = Len(dump.seen)
            /\ \A i \in 1..Len(dump.writes) :
                   dump.writes[i].entry = <<"{", dump.seen[i], "}">>

C9_Witness ==
    /\ Dumped
    /\ dump.seen = <<"A", "B", "C">>
    /\ dump.ret = NoErr
    /\ dump.writes[1].outcome = "fault"
    /\ dump.writes[2].outcome = "short"
    /\ dump.writes[3].outcome = "ok"
    /\ sink = <<"{", "{", "C", "}">>

(***************************************************************************)
(* Meter Adapter claim, under SpecMeter.                                   *)
(***************************************************************************)
\* C10: whatever the earlier calls returned, each Get opens the session unless
\* it holds a valid handle, makes at most one exchange, and succeeds exactly
\* when the transport does; no failure leaves the adapter failed for good.
C10_NoPermanentFailure ==
    /\ handle \in {"closed", "open", "invalid"}
    /\ \A i \in 1..Len(results) :
          /\ results[i].exchanges <= 1
          /\ results[i].transportOK =>
                /\ results[i].result = "ok"
                /\ results[i].exchanges = 1
                /\ results[i].opened = ~results[i].held
          /\ results[i].result = "ok" => results[i].transportOK

C10_Witness ==
    /\ Len(results) = 3
    /\ results[1].result = TransportError
    /\ results[2].result = ProtocolError
    /\ results[3].result = "ok"
    /\ tpc = 5

====
